---- MODULE Spec2Model ----
(***************************************************************************)
(* The dealer of the aggregated range proof protocol                       *)
(* (src/aggregated_range_proof/dealer.rs).                                 *)
(*                                                                         *)
(* Group elements and scalars are the integers modulo GroupOrder; the      *)
(* transcript is the sequence of operations performed on it, and a         *)
(* challenge is a digest of that sequence.                                 *)
(***************************************************************************)
EXTENDS Integers, Sequences, FiniteSets, TLC

\* ------------------------------------------------------------------ bounds
GroupOrder == 3
MaxN == 1
MaxM == 2
MaxSeed == 0
MaxFails == 1
MaxPairM == 1

MaxLen == MaxM + 1

\* ------------------------------------------------- group and scalar field
Point == 0 .. (GroupOrder - 1)
Scalar == 0 .. (GroupOrder - 1)

identity == 0
zero == 0

PointAdd(a, b) == (a + b) % GroupOrder
ScalarAdd(a, b) == (a + b) % GroupOrder
ScalarMul(a, b) == (a * b) % GroupOrder

RECURSIVE ScalarPow(_, _)
ScalarPow(a, k) == IF k = 0 THEN 1 % GroupOrder ELSE ScalarMul(a, ScalarPow(a, k - 1))

\* Scalar::invert: a^(order - 2)
invert(a) == ScalarPow(a, GroupOrder - 2)

\* util::exp_iter, the first k powers of x
exp_iter(x, k) == [i \in 1 .. k |-> ScalarPow(x, i - 1)]

RECURSIVE inner_product(_, _)
inner_product(a, b) ==
    IF a = <<>> \/ b = <<>> THEN 0
    ELSE ScalarAdd(ScalarMul(Head(a), Head(b)), inner_product(Tail(a), Tail(b)))

\* ------------------------------------------------------------- transcript
\* ProofTranscript::new(label): the seed is the first entry.
NewTranscript(seed) == << [op |-> "new", v |-> seed] >>

Absorb(h, e) ==
    IF e.op = "challenge_scalar" THEN (h + 1) % GroupOrder
    ELSE (2 * h + e.v + 1) % GroupOrder

RECURSIVE Digest(_)
Digest(t) ==
    IF t = <<>> THEN 0 ELSE Absorb(Digest(SubSeq(t, 1, Len(t) - 1)), t[Len(t)])

commit_u64(t, value) == Append(t, [op |-> "commit_u64", v |-> value])
commit(t, bytes) == Append(t, [op |-> "commit", v |-> bytes])

\* challenge_scalar returns the scalar and advances the transcript.
challenge_scalar(t) ==
    LET c == Digest(t)
    IN  [scalar |-> c, transcript |-> Append(t, [op |-> "challenge_scalar", v |-> c])]

\* CompressedRistretto / Scalar bytes: the canonical encoding of the residue.
compress(p) == p % GroupOrder
as_bytes(s) == s % GroupOrder

\* ------------------------------------------------------------- messages
ValueCommitment(V, A, S) == [V |-> V, A |-> A, S |-> S]
PolyCommitment(T1, T2) == [T_1 |-> T1, T_2 |-> T2]

\* What a party holds: its commitments and its slices of l and r.
Party1 ==
    [value_commitment |-> ValueCommitment(1, 1, 2),
     poly_commitment |-> PolyCommitment(1, 0),
     l_vec |-> <<1, 2>>, r_vec |-> <<2, 2>>]
Party2 ==
    [value_commitment |-> ValueCommitment(2, 2, 0),
     poly_commitment |-> PolyCommitment(2, 2),
     l_vec |-> <<2>>, r_vec |-> <<1>>]
Parties == {Party1, Party2}

ValueCommitments == {p.value_commitment : p \in Parties}
PolyCommitments == {p.poly_commitment : p \in Parties}

\* The blinding factors that make a share consistent with (y, z) and x.
TBlindingFor(ps, vc, pc) ==
    (ScalarMul(ScalarMul(vc.z, vc.z), ps.value_commitment.V)
        + ScalarMul(pc.x, ps.poly_commitment.T_1)
        + ScalarMul(ScalarMul(pc.x, pc.x), ps.poly_commitment.T_2)
        + ps.t_x) % GroupOrder
EBlindingFor(ps, vc, pc) ==
    (ps.value_commitment.A + ScalarMul(pc.x, ps.value_commitment.S) + vc.y) % GroupOrder

\* ProofShare::verify_share
verify_share(ps, value_challenge, poly_challenge) ==
    /\ ps.t_x = inner_product(ps.l_vec, ps.r_vec)
    /\ ps.t_x_blinding = TBlindingFor(ps, value_challenge, poly_challenge)
    /\ ps.e_blinding = EBlindingFor(ps, value_challenge, poly_challenge)

\* The share an honest party computes under the broadcast challenges.
HonestShare(p, vc, pc) ==
    LET base == [value_commitment |-> p.value_commitment,
                 poly_commitment |-> p.poly_commitment,
                 t_x |-> inner_product(p.l_vec, p.r_vec),
                 l_vec |-> p.l_vec, r_vec |-> p.r_vec]
    IN  [value_commitment |-> base.value_commitment,
         poly_commitment |-> base.poly_commitment,
         t_x |-> base.t_x,
         t_x_blinding |-> TBlindingFor(base, vc, pc),
         e_blinding |-> EBlindingFor(base, vc, pc),
         l_vec |-> base.l_vec, r_vec |-> base.r_vec]

\* A faulty or adversarial party: the evaluation t_x is off by one.
FaultyShare(p, vc, pc) ==
    [HonestShare(p, vc, pc) EXCEPT !.t_x = ScalarAdd(@, 1)]

ProofShares(vc, pc) ==
    {HonestShare(p, vc, pc) : p \in Parties} \cup {FaultyShare(Party1, vc, pc)}

\* All batches (Vec<_>) over a set of messages, of length 0 .. maxlen.
BatchesUpTo(S, maxlen) == UNION {[1 .. k -> S] : k \in 0 .. maxlen}
Batches(S) == BatchesUpTo(S, MaxLen)

\* GeneratorsView
GenLen == 2 * MaxLen
gen == [B |-> 1,
        G |-> [i \in 1 .. GenLen |-> 1 + (i % 2)],
        H |-> [i \in 1 .. GenLen |-> 2 - (i % 2)]]

\* ----------------------------------------------------------- dealer states
NoDealer == [type |-> "Init"]
DealerAwaitingValues(n, m) == [type |-> "DealerAwaitingValues", n |-> n, m |-> m]
DealerAwaitingPoly(n, m, value_challenge) ==
    [type |-> "DealerAwaitingPoly", n |-> n, m |-> m, value_challenge |-> value_challenge]
DealerAwaitingShares(n, m, value_challenge, poly_challenge) ==
    [type |-> "DealerAwaitingShares", n |-> n, m |-> m,
     value_challenge |-> value_challenge, poly_challenge |-> poly_challenge]
\* The dealer was consumed by the call that emitted the Proof.
Finished == [type |-> "Proof"]

ValueChallenge(y, z) == [y |-> y, z |-> z]
PolyChallenge(x) == [x |-> x]

\* Result<_, _>: what a call returns, with the transcript it leaves behind
\* and the indices of the shares it passed to verify_share.
Ok(value, challenge, transcript, verified) ==
    [ok |-> TRUE, value |-> value, challenge |-> challenge, err |-> "",
     transcript |-> transcript, verified |-> verified]
Err(self, msg, transcript, verified) ==
    [ok |-> FALSE, value |-> self, challenge |-> <<>>, err |-> msg,
     transcript |-> transcript, verified |-> verified]

ErrValuesLength == "Length of value commitments doesn't match expected length m"
ErrPolyLength == "Length of poly commitments doesn't match expected length m"
ErrSharesLength == "Length of proof shares doesn't match expected length m"
ErrInvalidShare == "One of the proof shares is invalid"

\* ------------------------------------------------------------ Dealer::new
\* Mutation: m is committed before n.
Dealer_new_m_first(n, m, transcript) ==
    LET t1 == commit_u64(transcript, m)
        t2 == commit_u64(t1, n)
    IN  Ok(DealerAwaitingValues(n, m), <<>>, t2, <<>>)

Dealer_new(n, m, transcript) ==
    LET t1 == commit_u64(transcript, n)
        t2 == commit_u64(t1, m)
    IN  Ok(DealerAwaitingValues(n, m), <<>>, t2, <<>>)

\* ------------------------- DealerAwaitingValues::receive_value_commitments
\* Mutation: an empty batch is rejected.
values_length_mismatch_rejects_empty(self, value_commitments) ==
    self.m # Len(value_commitments) \/ Len(value_commitments) = 0

values_length_mismatch(self, value_commitments) == self.m # Len(value_commitments)

\* Mutation: the aggregates are assigned instead of added to.
values_loop_body_assigning(acc, commitment) ==
    [transcript |-> commit(acc.transcript, compress(commitment.V)),
     A |-> commitment.A,
     S |-> commitment.S]

\* One iteration of the loop over the batch: commit V, add A and S.
values_loop_body(acc, commitment) ==
    [transcript |-> commit(acc.transcript, compress(commitment.V)),
     A |-> PointAdd(acc.A, commitment.A),
     S |-> PointAdd(acc.S, commitment.S)]

RECURSIVE values_loop(_, _, _)
values_loop(acc, value_commitments, j) ==
    IF j > Len(value_commitments) THEN acc
    ELSE values_loop(values_loop_body(acc, value_commitments[j]), value_commitments, j + 1)

\* Mutation: y is drawn before the aggregate S is committed.
values_challenge_before_S(acc) ==
    LET t1 == commit(acc.transcript, compress(acc.A))
        y == challenge_scalar(t1)
        t2 == commit(y.transcript, compress(acc.S))
        z == challenge_scalar(t2)
    IN  [value_challenge |-> ValueChallenge(y.scalar, z.scalar), transcript |-> z.transcript]

\* Commit the aggregates, then draw y and z.
values_commit_and_challenge(acc) ==
    LET t1 == commit(acc.transcript, compress(acc.A))
        t2 == commit(t1, compress(acc.S))
        y == challenge_scalar(t2)
        z == challenge_scalar(y.transcript)
    IN  [value_challenge |-> ValueChallenge(y.scalar, z.scalar), transcript |-> z.transcript]

\* Mutation: the length is checked after the batch was committed.
receive_value_commitments_check_late(self, value_commitments, transcript) ==
    LET acc == values_loop([transcript |-> transcript, A |-> identity, S |-> identity],
                           value_commitments, 1)
        c == values_commit_and_challenge(acc)
    IN  IF values_length_mismatch(self, value_commitments)
        THEN Err(self, ErrValuesLength, acc.transcript, <<>>)
        ELSE Ok(DealerAwaitingPoly(self.n, self.m, c.value_challenge),
                c.value_challenge, c.transcript, <<>>)

\* Mutation: a failing call consumes the dealer instead of handing it back.
receive_value_commitments_consuming(self, value_commitments, transcript) ==
    IF values_length_mismatch(self, value_commitments)
    THEN Err([type |-> "Dropped"], ErrValuesLength, transcript, <<>>)
    ELSE LET acc == values_loop([A |-> identity, S |-> identity, transcript |-> transcript],
                                value_commitments, 1)
             c == values_commit_and_challenge(acc)
         IN  Ok(DealerAwaitingPoly(self.n, self.m, c.value_challenge),
                c.value_challenge, c.transcript, <<>>)
receive_value_commitments(self, value_commitments, transcript) ==
    IF values_length_mismatch(self, value_commitments)
    THEN Err(self, ErrValuesLength, transcript, <<>>)
    ELSE LET acc == values_loop([transcript |-> transcript, A |-> identity, S |-> identity],
                                value_commitments, 1)
             c == values_commit_and_challenge(acc)
         IN  Ok(DealerAwaitingPoly(self.n, self.m, c.value_challenge),
                c.value_challenge, c.transcript, <<>>)

\* ---------------------------- DealerAwaitingPoly::receive_poly_commitments
\* Mutation: a batch shorter than m passes the length check.
poly_length_mismatch_shorter_passes(self, poly_commitments) ==
    self.m < Len(poly_commitments)

poly_length_mismatch(self, poly_commitments) == self.m # Len(poly_commitments)

poly_loop_body(acc, commitment) ==
    [T1 |-> PointAdd(acc.T1, commitment.T_1),
     T2 |-> PointAdd(acc.T2, commitment.T_2)]

RECURSIVE poly_loop(_, _, _)
poly_loop(acc, poly_commitments, j) ==
    IF j > Len(poly_commitments) THEN acc
    ELSE poly_loop(poly_loop_body(acc, poly_commitments[j]), poly_commitments, j + 1)

\* Mutation: x is drawn twice, a second challenge after the first.
poly_commit_and_challenge_twice(acc, transcript) ==
    LET t1 == commit(transcript, compress(acc.T1))
        t2 == commit(t1, compress(acc.T2))
        x0 == challenge_scalar(t2)
        x == challenge_scalar(x0.transcript)
    IN  [poly_challenge |-> PolyChallenge(x.scalar), transcript |-> x.transcript]
poly_commit_and_challenge(acc, transcript) ==
    LET t1 == commit(transcript, compress(acc.T1))
        t2 == commit(t1, compress(acc.T2))
        x == challenge_scalar(t2)
    IN  [poly_challenge |-> PolyChallenge(x.scalar), transcript |-> x.transcript]

\* Mutation: the length is checked after the aggregates were committed.
receive_poly_commitments_check_late(self, poly_commitments, transcript) ==
    LET acc == poly_loop([T1 |-> identity, T2 |-> identity], poly_commitments, 1)
        c == poly_commit_and_challenge(acc, transcript)
    IN  IF poly_length_mismatch(self, poly_commitments)
        THEN Err(self, ErrPolyLength, commit(transcript, compress(acc.T1)), <<>>)
        ELSE Ok(DealerAwaitingShares(self.n, self.m, self.value_challenge, c.poly_challenge),
                c.poly_challenge, c.transcript, <<>>)

\* Mutation: the next state is built with y and z exchanged.
receive_poly_commitments_swapping(self, poly_commitments, transcript) ==
    IF poly_length_mismatch(self, poly_commitments)
    THEN Err(self, ErrPolyLength, transcript, <<>>)
    ELSE LET acc == poly_loop([T1 |-> identity, T2 |-> identity], poly_commitments, 1)
             c == poly_commit_and_challenge(acc, transcript)
         IN  Ok(DealerAwaitingShares(self.n, self.m,
                    ValueChallenge(self.value_challenge.z, self.value_challenge.y),
                    c.poly_challenge),
                c.poly_challenge, c.transcript, <<>>)
receive_poly_commitments(self, poly_commitments, transcript) ==
    IF poly_length_mismatch(self, poly_commitments)
    THEN Err(self, ErrPolyLength, transcript, <<>>)
    ELSE LET acc == poly_loop([T1 |-> identity, T2 |-> identity], poly_commitments, 1)
             c == poly_commit_and_challenge(acc, transcript)
         IN  Ok(DealerAwaitingShares(self.n, self.m, self.value_challenge, c.poly_challenge),
                c.poly_challenge, c.transcript, <<>>)

\* ------------------------------------ inner_product_proof::InnerProductProof
\* The constructor is opaque: the proof is the record of what it was given,
\* and its own use of the transcript is one entry.
InnerProductProof_create(transcript, Q, Hprime_factors, G_vec, H_vec, l_vec, r_vec) ==
    [ipp_proof |-> [Q |-> Q, Hprime_factors |-> Hprime_factors,
                    G_vec |-> G_vec, H_vec |-> H_vec,
                    l_vec |-> l_vec, r_vec |-> r_vec],
     transcript |-> Append(transcript, [op |-> "ipp_create", v |-> Q])]

\* ------------------------------------ DealerAwaitingShares::receive_shares
\* Mutation: a batch longer than m passes the length check.
shares_length_mismatch_longer_passes(self, proof_shares) == self.m > Len(proof_shares)

shares_length_mismatch(self, proof_shares) == self.m # Len(proof_shares)

\* The verification loop: stops at the first share that fails.
\* Mutation: the loop returns after the first share.
verify_loop_first_only(self, proof_shares, j, verified) ==
    IF j > Len(proof_shares) THEN [ok |-> TRUE, verified |-> verified]
    ELSE IF ~verify_share(proof_shares[j], self.value_challenge, self.poly_challenge)
         THEN [ok |-> FALSE, verified |-> Append(verified, j)]
         ELSE [ok |-> TRUE, verified |-> Append(verified, j)]

RECURSIVE verify_loop(_, _, _, _)
verify_loop(self, proof_shares, j, verified) ==
    IF j > Len(proof_shares) THEN [ok |-> TRUE, verified |-> verified]
    ELSE IF ~verify_share(proof_shares[j], self.value_challenge, self.poly_challenge)
         THEN [ok |-> FALSE, verified |-> Append(verified, j)]
         ELSE verify_loop(self, proof_shares, j + 1, Append(verified, j))

\* iter().fold(init, |acc, ps| acc + f(ps)) for points and for scalars
RECURSIVE fold_points(_, _, _)
fold_points(acc, values, j) ==
    IF j > Len(values) THEN acc ELSE fold_points(PointAdd(acc, values[j]), values, j + 1)

RECURSIVE fold_scalars(_, _, _)
fold_scalars(acc, values, j) ==
    IF j > Len(values) THEN acc ELSE fold_scalars(ScalarAdd(acc, values[j]), values, j + 1)

\* iter().flat_map(|ps| vec(ps).into_iter()).collect()
RECURSIVE flat_map_collect(_, _, _)
flat_map_collect(vecs, j, out) ==
    IF j > Len(vecs) THEN out ELSE flat_map_collect(vecs, j + 1, out \o vecs[j])

\* iter().map(|ps| ps.value_commitment.V.clone()).collect()
shares_value_commitments(proof_shares) ==
    [j \in 1 .. Len(proof_shares) |-> proof_shares[j].value_commitment.V]
shares_A(proof_shares) ==
    fold_points(identity,
                [j \in 1 .. Len(proof_shares) |-> proof_shares[j].value_commitment.A], 1)
shares_S(proof_shares) ==
    fold_points(identity,
                [j \in 1 .. Len(proof_shares) |-> proof_shares[j].value_commitment.S], 1)
shares_T_1(proof_shares) ==
    fold_points(identity,
                [j \in 1 .. Len(proof_shares) |-> proof_shares[j].poly_commitment.T_1], 1)

\* Mutation: the sum of the T_1 is taken for T_2 as well.
shares_T_2_from_T_1(proof_shares) ==
    fold_points(identity, [j \in 1 .. Len(proof_shares) |->
                               proof_shares[j].poly_commitment.T_1], 1)
shares_T_2(proof_shares) ==
    fold_points(identity,
                [j \in 1 .. Len(proof_shares) |-> proof_shares[j].poly_commitment.T_2], 1)
shares_t(proof_shares) ==
    fold_scalars(zero, [j \in 1 .. Len(proof_shares) |-> proof_shares[j].t_x], 1)
shares_t_x_blinding(proof_shares) ==
    fold_scalars(zero, [j \in 1 .. Len(proof_shares) |-> proof_shares[j].t_x_blinding], 1)
shares_e_blinding(proof_shares) ==
    fold_scalars(zero, [j \in 1 .. Len(proof_shares) |-> proof_shares[j].e_blinding], 1)

\* Mutation: the slices are collected in reverse batch order.
shares_l_vec_reversed(proof_shares) ==
    flat_map_collect([j \in 1 .. Len(proof_shares) |->
                         proof_shares[Len(proof_shares) + 1 - j].l_vec], 1, <<>>)

shares_l_vec(proof_shares) ==
    flat_map_collect([j \in 1 .. Len(proof_shares) |-> proof_shares[j].l_vec], 1, <<>>)
shares_r_vec(proof_shares) ==
    flat_map_collect([j \in 1 .. Len(proof_shares) |-> proof_shares[j].r_vec], 1, <<>>)

\* Mutation: w is drawn before e_blinding is committed.
shares_challenge_before_e_blinding(t, t_x_blinding, e_blinding, transcript) ==
    LET t1 == commit(transcript, as_bytes(t))
        t2 == commit(t1, as_bytes(t_x_blinding))
        w == challenge_scalar(t2)
    IN  [scalar |-> w.scalar, transcript |-> commit(w.transcript, as_bytes(e_blinding))]
\* Commit the three summed scalars, then draw w.
shares_commit_and_challenge(t, t_x_blinding, e_blinding, transcript) ==
    LET t1 == commit(transcript, as_bytes(t))
        t2 == commit(t1, as_bytes(t_x_blinding))
        t3 == commit(t2, as_bytes(e_blinding))
    IN  challenge_scalar(t3)

\* The part of receive_shares after every share has verified.
assemble_proof(self, proof_shares, generators, transcript, verified) ==
    LET t == shares_t(proof_shares)
        t_x_blinding == shares_t_x_blinding(proof_shares)
        e_blinding == shares_e_blinding(proof_shares)
        w == shares_commit_and_challenge(t, t_x_blinding, e_blinding, transcript)
        Q == ScalarMul(w.scalar, generators.B)
        l_vec == shares_l_vec(proof_shares)
        r_vec == shares_r_vec(proof_shares)
        ipp == InnerProductProof_create(
                   w.transcript, Q,
                   exp_iter(invert(self.value_challenge.y), Len(l_vec)),
                   generators.G, generators.H, l_vec, r_vec)
    IN  Ok([n |-> self.n,
            value_commitments |-> shares_value_commitments(proof_shares),
            A |-> shares_A(proof_shares),
            S |-> shares_S(proof_shares),
            T_1 |-> shares_T_1(proof_shares),
            T_2 |-> shares_T_2(proof_shares),
            t_x |-> t,
            t_x_blinding |-> t_x_blinding,
            e_blinding |-> e_blinding,
            ipp_proof |-> ipp.ipp_proof],
           <<>>, ipp.transcript, verified)

\* Mutation: the summed t_x is committed before the shares are verified.
receive_shares_commit_before_verify(self, proof_shares, generators, transcript) ==
    IF shares_length_mismatch(self, proof_shares)
    THEN Err(self, ErrSharesLength, transcript, <<>>)
    ELSE LET v == verify_loop(self, proof_shares, 1, <<>>)
         IN  IF ~v.ok
             THEN Err(self, ErrInvalidShare,
                      commit(transcript, as_bytes(shares_t(proof_shares))), v.verified)
             ELSE assemble_proof(self, proof_shares, generators, transcript, v.verified)

\* Mutation: the shares are verified before the length is checked.
receive_shares_verify_first(self, proof_shares, generators, transcript) ==
    LET v == verify_loop(self, proof_shares, 1, <<>>)
    IN  IF ~v.ok
        THEN Err(self, ErrInvalidShare, transcript, v.verified)
        ELSE IF shares_length_mismatch(self, proof_shares)
        THEN Err(self, ErrSharesLength, transcript, v.verified)
        ELSE assemble_proof(self, proof_shares, generators, transcript, v.verified)
receive_shares(self, proof_shares, generators, transcript) ==
    IF shares_length_mismatch(self, proof_shares)
    THEN Err(self, ErrSharesLength, transcript, <<>>)
    ELSE LET v == verify_loop(self, proof_shares, 1, <<>>)
         IN  IF ~v.ok
             THEN Err(self, ErrInvalidShare, transcript, v.verified)
             ELSE assemble_proof(self, proof_shares, generators, transcript, v.verified)

\* ------------------------------------------------------------------ state
VARIABLES
    dealer,      \* the dealer state the caller holds
    transcript,  \* the ProofTranscript threaded through the run
    result,      \* the last call and what it returned
    proof,       \* the Proof, once emitted
    accepted,    \* the batch each successful round was given
    succ,        \* the calls that succeeded, in order
    ref,         \* a second, independent run (dealer, transcript, ...)
    fails        \* the errors of the failed calls given to the first run only

vars == <<dealer, transcript, result, proof, accepted, succ, ref, fails>>

NoProof == [n |-> 0, value_commitments |-> <<>>, A |-> identity, S |-> identity,
            T_1 |-> identity, T_2 |-> identity, t_x |-> zero, t_x_blinding |-> zero,
            e_blinding |-> zero, ipp_proof |-> <<>>, emitted |-> FALSE]
Emitted(p) ==
    [n |-> p.n, value_commitments |-> p.value_commitments, A |-> p.A, S |-> p.S,
     T_1 |-> p.T_1, T_2 |-> p.T_2, t_x |-> p.t_x, t_x_blinding |-> p.t_x_blinding,
     e_blinding |-> p.e_blinding, ipp_proof |-> p.ipp_proof, emitted |-> TRUE]

NoCall == [op |-> "none", len |-> 0, all_valid |-> TRUE, ok |-> TRUE, err |-> "",
           challenge |-> <<>>, verified |-> <<>>]
Call(op, len, all_valid, r) ==
    [op |-> op, len |-> len, all_valid |-> all_valid, ok |-> r.ok, err |-> r.err,
     challenge |-> r.challenge, verified |-> r.verified]

NoneAccepted == [shape |-> <<>>, values |-> <<>>, polys |-> <<>>, shares |-> <<>>]

\* A run: everything one protocol run consists of.
NewRun(seed) ==
    [dealer |-> NoDealer, transcript |-> NewTranscript(seed), result |-> NoCall,
     proof |-> NoProof, accepted |-> NoneAccepted, succ |-> <<>>]

\* The caller's calls, as functions of a run.
CallNew(R, n, m) ==
    LET r == Dealer_new(n, m, R.transcript)
    IN  [R EXCEPT !.dealer = r.value, !.transcript = r.transcript,
                  !.result = Call("new", 0, TRUE, r),
                  !.accepted.shape = <<n, m>>,
                  !.succ = Append(@, "new")]

CallValues(R, batch) ==
    LET r == receive_value_commitments(R.dealer, batch, R.transcript)
    IN  [R EXCEPT !.dealer = r.value, !.transcript = r.transcript,
                  !.result = Call("receive_value_commitments", Len(batch), TRUE, r),
                  !.accepted.values = IF r.ok THEN batch ELSE @,
                  !.succ = IF r.ok THEN Append(@, "receive_value_commitments") ELSE @]

CallPoly(R, batch) ==
    LET r == receive_poly_commitments(R.dealer, batch, R.transcript)
    IN  [R EXCEPT !.dealer = r.value, !.transcript = r.transcript,
                  !.result = Call("receive_poly_commitments", Len(batch), TRUE, r),
                  !.accepted.polys = IF r.ok THEN batch ELSE @,
                  !.succ = IF r.ok THEN Append(@, "receive_poly_commitments") ELSE @]

\* The challenges drawn from a transcript so far, in order: y, z, x, w.
IsChallenge(e) == e.op = "challenge_scalar"
ChallengesOf(t) ==
    LET drawn == SelectSeq(t, IsChallenge) IN [i \in 1 .. Len(drawn) |-> drawn[i].v]

\* Whether every share of the batch verifies under the challenges that were
\* issued on the transcript in rounds 1 and 2.
AllValid(t, batch) ==
    LET c == ChallengesOf(t)
    IN  \A j \in 1 .. Len(batch) :
            verify_share(batch[j], ValueChallenge(c[1], c[2]), PolyChallenge(c[3]))

\* Mutation: receive_shares borrows the dealer instead of consuming it.
CallShares_borrowing(R, batch) ==
    LET r == receive_shares(R.dealer, batch, gen, R.transcript)
    IN  [R EXCEPT !.dealer = IF r.ok THEN R.dealer ELSE r.value,
                  !.transcript = r.transcript,
                  !.result = Call("receive_shares", Len(batch), AllValid(R.transcript, batch), r),
                  !.proof = IF r.ok THEN Emitted(r.value) ELSE @,
                  !.accepted.shares = IF r.ok THEN batch ELSE @,
                  !.succ = IF r.ok THEN Append(@, "receive_shares") ELSE @]

CallShares(R, batch) ==
    LET r == receive_shares(R.dealer, batch, gen, R.transcript)
    IN  [R EXCEPT !.dealer = IF r.ok THEN Finished ELSE r.value,
                  !.transcript = r.transcript,
                  !.result = Call("receive_shares", Len(batch), AllValid(R.transcript, batch), r),
                  !.proof = IF r.ok THEN Emitted(r.value) ELSE @,
                  !.accepted.shares = IF r.ok THEN batch ELSE @,
                  !.succ = IF r.ok THEN Append(@, "receive_shares") ELSE @]

Main == [dealer |-> dealer, transcript |-> transcript, result |-> result,
         proof |-> proof, accepted |-> accepted, succ |-> succ]

SetMain(R) ==
    /\ dealer' = R.dealer
    /\ transcript' = R.transcript
    /\ result' = R.result
    /\ proof' = R.proof
    /\ accepted' = R.accepted
    /\ succ' = R.succ

Init ==
    \E seed \in 0 .. MaxSeed :
        /\ dealer = NoDealer
        /\ transcript = NewTranscript(seed)
        /\ result = NoCall
        /\ proof = NoProof
        /\ accepted = NoneAccepted
        /\ succ = <<>>
        /\ ref = NewRun(seed)
        /\ fails = {}

\* ------------------------------------------------------------- one run
Start ==
    /\ dealer.type = "Init"
    /\ \E n \in 0 .. MaxN, m \in 0 .. MaxM : SetMain(CallNew(Main, n, m))
    /\ UNCHANGED <<ref, fails>>

ReceiveValueCommitments ==
    /\ dealer.type = "DealerAwaitingValues"
    /\ \E batch \in Batches(ValueCommitments) : SetMain(CallValues(Main, batch))
    /\ UNCHANGED <<ref, fails>>

ReceivePolyCommitments ==
    /\ dealer.type = "DealerAwaitingPoly"
    /\ \E batch \in Batches(PolyCommitments) : SetMain(CallPoly(Main, batch))
    /\ UNCHANGED <<ref, fails>>

ReceiveShares ==
    /\ dealer.type = "DealerAwaitingShares"
    /\ \E batch \in Batches(ProofShares(dealer.value_challenge, dealer.poly_challenge)) :
           SetMain(CallShares(Main, batch))
    /\ UNCHANGED <<ref, fails>>

Next ==
    \/ Start
    \/ ReceiveValueCommitments
    \/ ReceivePolyCommitments
    \/ ReceiveShares

Spec == Init /\ [][Next]_vars

\* ------------------------------------------------- a caller that completes
\* The steps by which the dealer leaves a round: the call that was given a
\* batch the round accepts, seen as a change of the dealer's typed state.
ValuesAccepted ==
    /\ dealer.type = "DealerAwaitingValues"
    /\ \E y, z \in Scalar :
           dealer' = DealerAwaitingPoly(dealer.n, dealer.m, ValueChallenge(y, z))

PolyAccepted ==
    /\ dealer.type = "DealerAwaitingPoly"
    /\ \E x \in Scalar :
           dealer' = DealerAwaitingShares(dealer.n, dealer.m, dealer.value_challenge,
                                          PolyChallenge(x))

SharesAccepted ==
    /\ dealer.type = "DealerAwaitingShares"
    /\ dealer' = Finished

\* The same run under the assumption that the caller, who may first make any
\* number of failing calls, eventually supplies an accepted batch in each
\* round.  While a round is open a failing call hands the same state back, so
\* the accepted call stays possible and weak fairness states the assumption.
CallerCompletes ==
    /\ WF_dealer(ValuesAccepted)
    /\ WF_dealer(PolyAccepted)
    /\ WF_dealer(SharesAccepted)

SpecLive == Init /\ [][Next]_vars /\ CallerCompletes

\* ------------------------------------------------------------ two runs
\* Two runs from the same seed are given the same calls (at most MaxPairM
\* parties); besides, the first run is given any number of calls of its own
\* that fail (with at most MaxFails different errors), so the second is the
\* run in which they never happened.
PairBatches(S) == BatchesUpTo(S, MaxPairM + 1)

PairStart ==
    /\ dealer.type = "Init" /\ ref.dealer.type = "Init"
    /\ \E n \in 1 .. MaxN, m \in 0 .. MaxPairM :
           /\ SetMain(CallNew(Main, n, m))
           /\ ref' = CallNew(ref, n, m)
    /\ UNCHANGED fails

PairValues ==
    /\ dealer.type = "DealerAwaitingValues" /\ ref.dealer.type = "DealerAwaitingValues"
    /\ \E batch \in PairBatches(ValueCommitments) :
           /\ SetMain(CallValues(Main, batch))
           /\ ref' = CallValues(ref, batch)
    /\ UNCHANGED fails

PairPoly ==
    /\ dealer.type = "DealerAwaitingPoly" /\ ref.dealer.type = "DealerAwaitingPoly"
    /\ \E batch \in PairBatches(PolyCommitments) :
           /\ SetMain(CallPoly(Main, batch))
           /\ ref' = CallPoly(ref, batch)
    /\ UNCHANGED fails

PairShares ==
    /\ dealer.type = "DealerAwaitingShares" /\ ref.dealer.type = "DealerAwaitingShares"
    /\ \E batch \in PairBatches(ProofShares(dealer.value_challenge, dealer.poly_challenge)) :
           /\ SetMain(CallShares(Main, batch))
           /\ ref' = CallShares(ref, batch)
    /\ UNCHANGED fails

\* A failing call given to the first run only, one action per round.
SoloFail(R) ==
    /\ ~R.result.ok
    /\ Cardinality(fails \cup {R.result.err}) <= MaxFails
    /\ SetMain(R)
    /\ fails' = fails \cup {R.result.err}
    /\ UNCHANGED ref

SoloValuesFail ==
    /\ dealer.type = "DealerAwaitingValues"
    /\ \E batch \in PairBatches(ValueCommitments) : SoloFail(CallValues(Main, batch))

SoloPolyFail ==
    /\ dealer.type = "DealerAwaitingPoly"
    /\ \E batch \in PairBatches(PolyCommitments) : SoloFail(CallPoly(Main, batch))

SoloSharesFail ==
    /\ dealer.type = "DealerAwaitingShares"
    /\ \E batch \in PairBatches(ProofShares(dealer.value_challenge, dealer.poly_challenge)) :
           SoloFail(CallShares(Main, batch))

NextPair ==
    \/ PairStart
    \/ PairValues
    \/ PairPoly
    \/ PairShares
    \/ SoloValuesFail
    \/ SoloPolyFail
    \/ SoloSharesFail

SpecPair == Init /\ [][NextPair]_vars

\* ================================================================ claims
ReceiveOps == {"receive_value_commitments", "receive_poly_commitments", "receive_shares"}

LengthError(op) ==
    IF op = "receive_value_commitments" THEN ErrValuesLength
    ELSE IF op = "receive_poly_commitments" THEN ErrPolyLength
    ELSE ErrSharesLength

\* C1 -- Length enforcement: a receive call given a batch whose length differs
\* from the party count m of the state it is called on fails with the
\* length-mismatch error of that call and returns the state it was called on
\* (n, m and the challenges issued so far are unchanged).
C1_LengthEnforcement ==
    [][(result'.op \in ReceiveOps /\ result'.len # dealer.m)
          => /\ ~result'.ok
             /\ result'.err = LengthError(result'.op)
             /\ dealer' = dealer]_vars

\* A batch of three shares was refused by a dealer of two parties that holds
\* the challenges of rounds 1 and 2.
C1_Witness ==
    /\ result.op = "receive_shares" /\ ~result.ok
    /\ result.err = ErrSharesLength
    /\ result.len = 3
    /\ dealer.type = "DealerAwaitingShares" /\ dealer.m = 2

\* C2 -- A failed receive call leaves the transcript untouched: no commit and
\* no challenge draw was performed by it.
C2_FailureLeavesTranscript ==
    [][(result'.op \in ReceiveOps /\ ~result'.ok) => transcript' = transcript]_vars

\* A batch of the right length was refused for an invalid share.
C2_Witness ==
    /\ result.op = "receive_shares" /\ ~result.ok
    /\ result.err = ErrInvalidShare
    /\ result.len = dealer.m
    /\ Len(transcript) = dealer.m + 10

\* C3 -- Share-failure isolation: receive_shares emits a Proof only if the
\* batch has length m and every share verifies against the challenges issued
\* in rounds 1 and 2; a batch of length m with a share that fails is refused
\* with the invalid-share error, no Proof is emitted and the state returned
\* is the state the call was made on.
C3_ShareFailureIsolation ==
    [][result'.op = "receive_shares"
          => /\ (result'.ok \/ proof'.emitted)
                 => (result'.all_valid /\ result'.len = dealer.m)
             /\ (result'.len = dealer.m /\ ~result'.all_valid)
                 => /\ ~result'.ok
                    /\ result'.err = ErrInvalidShare
                    /\ ~proof'.emitted
                    /\ dealer' = dealer]_vars

\* Of two shares the first verified and the second did not.
C3_Witness ==
    /\ result.op = "receive_shares" /\ ~result.ok
    /\ result.err = ErrInvalidShare
    /\ result.len = 2 /\ result.verified = <<1, 2>>
    /\ ~result.all_valid
    /\ ~proof.emitted

\* The calls of a run and the dealer states, in protocol order.
RoundOrder ==
    <<"new", "receive_value_commitments", "receive_poly_commitments", "receive_shares">>
StateOrder ==
    <<"Init", "DealerAwaitingValues", "DealerAwaitingPoly", "DealerAwaitingShares", "Proof">>
Rank(d) == CHOOSE i \in 1 .. Len(StateOrder) : StateOrder[i] = d.type

\* C4 -- Round ordering: the dealer state only moves forward through Init,
\* AwaitingValues, AwaitingPoly, AwaitingShares, Proof, one state at a time
\* and only by a successful call; each receive call succeeds at most once, in
\* the order values, poly, shares, and a Proof exists only after all three.
C4_RoundOrdering ==
    [][/\ Rank(dealer') \in {Rank(dealer), Rank(dealer) + 1}
       /\ (Rank(dealer') = Rank(dealer) + 1) <=> (result'.ok /\ succ' # succ)
       /\ Len(succ') <= Len(RoundOrder)
       /\ succ' = SubSeq(RoundOrder, 1, Len(succ'))
       /\ Rank(dealer') = Len(succ') + 1
       /\ proof'.emitted <=> (succ' = RoundOrder)]_vars

\* A run of two parties went through all four calls and emitted its Proof.
C4_Witness ==
    /\ dealer.type = "Proof" /\ proof.emitted
    /\ succ = RoundOrder
    /\ accepted.shape[2] = 2 /\ Len(accepted.shares) = 2

\* The two runs started from one seed and were given the same n, m and batches.
SameInputs ==
    /\ transcript[1] = ref.transcript[1]
    /\ accepted = ref.accepted
    /\ succ = ref.succ

C6_RetryContract ==
    fails # {}
        => /\ succ = ref.succ
           /\ dealer = ref.dealer
           /\ proof = ref.proof
           /\ result.ok => result = ref.result

\* After a batch refused for an invalid share, the retry emitted the Proof.
C6_Witness ==
    /\ ErrInvalidShare \in fails
    /\ result.op = "receive_shares" /\ result.ok
    /\ proof.emitted /\ ref.proof.emitted

\* The sum of a sequence of group elements, from the identity.
RECURSIVE GroupSum(_)
GroupSum(s) == IF s = <<>> THEN 0 ELSE (Head(s) + GroupSum(Tail(s))) % GroupOrder

\* The concatenation of a sequence of vectors.
RECURSIVE Concat(_)
Concat(ss) == IF ss = <<>> THEN <<>> ELSE Head(ss) \o Concat(Tail(ss))

PartyCount == accepted.shape[2]
Committed(value) == [op |-> "commit", v |-> value]

\* C7 -- Homomorphic aggregation: the A and the S that round 1 committed are
\* the group sums of the A and the S of the accepted batch, and the T_1 and
\* the T_2 that round 2 committed are the group sums of the batch's T_1, T_2.
C7_HomomorphicAggregation ==
    /\ Len(succ) >= 2
        => /\ transcript[PartyCount + 4] =
                  Committed(GroupSum([j \in 1 .. PartyCount |-> accepted.values[j].A]))
           /\ transcript[PartyCount + 5] =
                  Committed(GroupSum([j \in 1 .. PartyCount |-> accepted.values[j].S]))
    /\ Len(succ) >= 3
        => /\ transcript[PartyCount + 8] =
                  Committed(GroupSum([j \in 1 .. PartyCount |-> accepted.polys[j].T_1]))
           /\ transcript[PartyCount + 9] =
                  Committed(GroupSum([j \in 1 .. PartyCount |-> accepted.polys[j].T_2]))

\* Rounds 1 and 2 accepted the commitments of party 1 and party 2.
C7_Witness ==
    /\ Len(succ) >= 3
    /\ accepted.values = <<Party1.value_commitment, Party2.value_commitment>>
    /\ accepted.polys = <<Party1.poly_commitment, Party2.poly_commitment>>
    /\ transcript[6].v = PointAdd(Party1.value_commitment.A, Party2.value_commitment.A)

\* C8 -- Vector concatenation order: the l_vec and the r_vec given to the
\* inner-product constructor are the shares' l_vec and r_vec concatenated in
\* batch order.
C8_ConcatenationOrder ==
    proof.emitted
        => /\ proof.ipp_proof.l_vec =
                  Concat([j \in 1 .. Len(accepted.shares) |-> accepted.shares[j].l_vec])
           /\ proof.ipp_proof.r_vec =
                  Concat([j \in 1 .. Len(accepted.shares) |-> accepted.shares[j].r_vec])

\* The shares of party 1 and party 2, whose slices differ, were accepted.
C8_Witness ==
    /\ proof.emitted
    /\ Len(accepted.shares) = 2
    /\ accepted.shares[1].l_vec = Party1.l_vec
    /\ accepted.shares[2].l_vec = Party2.l_vec
    /\ proof.ipp_proof.l_vec = Party1.l_vec \o Party2.l_vec
    /\ proof.ipp_proof.l_vec # Party2.l_vec \o Party1.l_vec

\* C9 -- Dealer::new always succeeds, commits n and then m before anything
\* else is committed or drawn, and returns an AwaitingValues state holding
\* the n and the m it was given.
C9_Start ==
    /\ (succ = <<>>) <=> (dealer.type = "Init")
    /\ succ = <<>> => Len(transcript) = 1
    /\ result.op = "new"
        => /\ result.ok
           /\ Len(transcript) = 3
           /\ dealer = DealerAwaitingValues(accepted.shape[1], accepted.shape[2])
    /\ succ # <<>>
        => /\ transcript[1].op = "new"
           /\ transcript[2] = [op |-> "commit_u64", v |-> accepted.shape[1]]
           /\ transcript[3] = [op |-> "commit_u64", v |-> accepted.shape[2]]
           /\ dealer.type # "Proof"
               => (dealer.n = accepted.shape[1] /\ dealer.m = accepted.shape[2])

\* Dealer::new was called with n = 1 and m = 2.
C9_Witness ==
    /\ result.op = "new" /\ result.ok
    /\ accepted.shape = <<1, 2>>
    /\ dealer = DealerAwaitingValues(1, 2)

\* C10 -- Round-1 transcript order: a successful receive_value_commitments
\* appends V_1 .. V_m in batch order, then the aggregate A, then the aggregate
\* S, and then draws y and z, in that order and nothing else.
C10_RoundOneOrder ==
    Len(succ) >= 2
        => /\ Len(transcript) >= PartyCount + 7
           /\ \A j \in 1 .. PartyCount :
                  transcript[3 + j] = Committed(accepted.values[j].V)
           /\ transcript[PartyCount + 4] =
                  Committed(GroupSum([j \in 1 .. PartyCount |-> accepted.values[j].A]))
           /\ transcript[PartyCount + 5] =
                  Committed(GroupSum([j \in 1 .. PartyCount |-> accepted.values[j].S]))
           /\ IsChallenge(transcript[PartyCount + 6])
           /\ IsChallenge(transcript[PartyCount + 7])
           /\ result.op = "receive_value_commitments" /\ result.ok
               => /\ Len(transcript) = PartyCount + 7
                  /\ result.challenge = ValueChallenge(transcript[PartyCount + 6].v,
                                                       transcript[PartyCount + 7].v)

\* Round 1 accepted party 2 and then party 1, whose V, A and S all differ.
C10_Witness ==
    /\ result.op = "receive_value_commitments" /\ result.ok
    /\ accepted.values = <<Party2.value_commitment, Party1.value_commitment>>
    /\ transcript[4].v # transcript[5].v
    /\ transcript[6].v # transcript[7].v

\* ---------------------------------------------------------------- C11
RoundThreeStart == PartyCount + 11

SharesField(name) == [j \in 1..Len(accepted.shares) |-> accepted.shares[j][name]]

\* C11: a receive_shares that fails leaves the transcript at the end of round
\* two, so nothing is committed before every share has verified; a successful
\* one has verified shares 1..m in order and appended exactly, in this order,
\* the commit of the summed t_x, of the summed t_x_blinding, of the summed
\* e_blinding, the challenge w, and the inner-product constructor's entry made
\* with Q = w * B on that same transcript.
C11_RoundThreeOrder ==
    /\ dealer.type = "DealerAwaitingShares" => Len(transcript) = PartyCount + 10
    /\ proof.emitted =>
        LET k == RoundThreeStart
            w == transcript[k + 3]
        IN  /\ result.verified = [j \in 1..PartyCount |-> j]
            /\ Len(transcript) = k + 4
            /\ transcript[k] = Committed(GroupSum(SharesField("t_x")))
            /\ transcript[k + 1] = Committed(GroupSum(SharesField("t_x_blinding")))
            /\ transcript[k + 2] = Committed(GroupSum(SharesField("e_blinding")))
            /\ IsChallenge(w)
            /\ w.v = Digest(SubSeq(transcript, 1, k + 2))
            /\ transcript[k + 4] = [op |-> "ipp_create", v |-> ScalarMul(w.v, gen.B)]
            /\ proof.ipp_proof.Q = ScalarMul(w.v, gen.B)

C11_Witness ==
    /\ proof.emitted
    /\ PartyCount = 2
    /\ transcript[RoundThreeStart + 1] # transcript[RoundThreeStart + 2]

\* ---------------------------------------------------------------- C12
RoundTwoStart == PartyCount + 8

\* The entries of the transcript that round 1 made: the V's, A, S, y and z.
RoundOneEntries == SubSeq(transcript, 4, PartyCount + 7)

\* C12: once receive_poly_commitments has succeeded, the transcript holds,
\* right after every entry of round one (the commits of the V's, of A and of
\* S, then the challenges y and z), the commit of the aggregate T_1, then the
\* commit of the aggregate T_2, then exactly one challenge, x, which is the
\* challenge the call returned; no other challenge is drawn in round two.
C12_RoundTwoOrder ==
    Len(succ) >= 3 =>
        LET k == RoundTwoStart
            x == transcript[k + 2]
        IN  /\ Len(RoundOneEntries) = PartyCount + 4
            /\ \A i \in 1 .. PartyCount + 2 : RoundOneEntries[i].op = "commit"
            /\ IsChallenge(RoundOneEntries[PartyCount + 3])
            /\ IsChallenge(RoundOneEntries[PartyCount + 4])
            /\ transcript[k] =
                  Committed(GroupSum([j \in 1 .. PartyCount |-> accepted.polys[j].T_1]))
            /\ transcript[k + 1] =
                  Committed(GroupSum([j \in 1 .. PartyCount |-> accepted.polys[j].T_2]))
            /\ IsChallenge(x)
            /\ x.v = Digest(SubSeq(transcript, 1, k + 1))
            /\ dealer.type = "DealerAwaitingShares"
                => /\ Len(transcript) = k + 2
                   /\ dealer.poly_challenge = PolyChallenge(x.v)
                   /\ Len(ChallengesOf(transcript)) = 3
            /\ (result.op = "receive_poly_commitments" /\ result.ok)
                => result.challenge = PolyChallenge(x.v)

C12_Witness ==
    /\ result.op = "receive_poly_commitments"
    /\ result.ok
    /\ PartyCount = 2
    /\ transcript[RoundTwoStart] # transcript[RoundTwoStart + 1]

\* ---------------------------------------------------------------- C13
HoldsShape == {"DealerAwaitingValues", "DealerAwaitingPoly", "DealerAwaitingShares"}
HoldsValueChallenge == {"DealerAwaitingPoly", "DealerAwaitingShares"}

\* What a state keeps of the run, in every state of the run.
C13_Held ==
    /\ dealer.type \in HoldsShape => <<dealer.n, dealer.m>> = accepted.shape
    /\ dealer.type \in HoldsValueChallenge =>
           dealer.value_challenge =
               ValueChallenge(ChallengesOf(transcript)[1], ChallengesOf(transcript)[2])
    /\ dealer.type = "DealerAwaitingShares" =>
           dealer.poly_challenge = PolyChallenge(ChallengesOf(transcript)[3])
    /\ proof.emitted => proof.n = accepted.shape[1]

\* What a call hands on to the next state.
C13_Step ==
    /\ (dealer.type = "DealerAwaitingValues" /\ dealer'.type = "DealerAwaitingPoly")
           => dealer'.value_challenge = result'.challenge
    /\ (dealer.type \in HoldsValueChallenge /\ dealer'.type \in HoldsValueChallenge)
           => dealer'.value_challenge = dealer.value_challenge
    /\ (dealer.type = "DealerAwaitingPoly" /\ dealer'.type = "DealerAwaitingShares")
           => dealer'.poly_challenge = result'.challenge
    /\ (dealer.type = "DealerAwaitingShares" /\ dealer'.type = "DealerAwaitingShares")
           => dealer'.poly_challenge = dealer.poly_challenge
    /\ (dealer.type \in HoldsShape /\ dealer'.type \in HoldsShape)
           => dealer'.n = dealer.n /\ dealer'.m = dealer.m
    /\ (dealer.type = "DealerAwaitingShares" /\ result'.len = dealer.m)
           => (result'.ok <=> result'.all_valid)
    /\ (dealer.type = "DealerAwaitingShares" /\ proof'.emitted)
           => proof'.ipp_proof.Hprime_factors =
                  exp_iter(invert(dealer.value_challenge.y),
                           Len(proof'.ipp_proof.l_vec))

\* C13: the (y, z) that receive_value_commitments returned is the one the
\* awaiting-poly and the awaiting-shares states hold, the x that
\* receive_poly_commitments returned is the one the awaiting-shares state
\* holds, no call changes them, they are the challenges the shares are
\* verified under and y is the one whose inverse gives the exponent sequence
\* handed to the constructor; and n and m stay the ones given at the start.
C13_ChallengeImmutability == [][C13_Held' /\ C13_Step]_vars

C13_Witness ==
    /\ proof.emitted
    /\ PartyCount = 2
    /\ ChallengesOf(transcript)[1] # ChallengesOf(transcript)[2]
    /\ proof.ipp_proof.Hprime_factors # <<>>

\* ---------------------------------------------------------------- C14
SharesValue(name) ==
    [j \in 1 .. Len(accepted.shares) |-> accepted.shares[j].value_commitment[name]]
SharesPoly(name) ==
    [j \in 1 .. Len(accepted.shares) |-> accepted.shares[j].poly_commitment[name]]

\* C14: the emitted Proof carries the n given at the start, the V of every
\* accepted share in batch order (m of them), A, S, T_1 and T_2 equal to the
\* group sums of the values embedded in the shares, and t_x, t_x_blinding and
\* e_blinding equal to the scalar sums of the shares' values; for one party
\* each aggregate is that party's own value.
C14_ProofAssembly ==
    proof.emitted =>
        /\ proof.n = accepted.shape[1]
        /\ Len(accepted.shares) = PartyCount
        /\ proof.value_commitments = SharesValue("V")
        /\ Len(proof.value_commitments) = PartyCount
        /\ proof.A = GroupSum(SharesValue("A"))
        /\ proof.S = GroupSum(SharesValue("S"))
        /\ proof.T_1 = GroupSum(SharesPoly("T_1"))
        /\ proof.T_2 = GroupSum(SharesPoly("T_2"))
        /\ proof.t_x = GroupSum(SharesField("t_x"))
        /\ proof.t_x_blinding = GroupSum(SharesField("t_x_blinding"))
        /\ proof.e_blinding = GroupSum(SharesField("e_blinding"))
        /\ PartyCount = 1 =>
            LET ps == accepted.shares[1]
            IN  /\ proof.A = ps.value_commitment.A
                /\ proof.S = ps.value_commitment.S
                /\ proof.T_1 = ps.poly_commitment.T_1
                /\ proof.T_2 = ps.poly_commitment.T_2
                /\ proof.t_x = ps.t_x
                /\ proof.t_x_blinding = ps.t_x_blinding
                /\ proof.e_blinding = ps.e_blinding

C14_Witness ==
    /\ proof.emitted
    /\ PartyCount = 2
    /\ accepted.shares[1] # accepted.shares[2]
    /\ proof.T_1 # proof.T_2

\* ---------------------------------------------------------------- C15
\* C15: the l_vec and the r_vec handed to the inner-product constructor each
\* have length exactly n * m.
C15_VectorLength ==
    proof.emitted =>
        /\ Len(proof.ipp_proof.l_vec) = accepted.shape[1] * PartyCount
        /\ Len(proof.ipp_proof.r_vec) = accepted.shape[1] * PartyCount

\* A Proof emitted for n = 1 and one party whose share, accepted by
\* verify_share, carries slices of length 2.
C15_FailingInput ==
    /\ proof.emitted
    /\ accepted.shape = <<1, 1>>
    /\ accepted.shares = <<HonestShare(Party1,
                                    ValueChallenge(ChallengesOf(transcript)[1],
                                                   ChallengesOf(transcript)[2]),
                                    PolyChallenge(ChallengesOf(transcript)[3]))>>
    /\ Len(proof.ipp_proof.l_vec) = 2
    /\ Len(proof.ipp_proof.r_vec) = 2

\* ---------------------------------------------------------------- C16
\* C16: the A and the S of the emitted Proof are the aggregate A and S that
\* round 1 committed to the transcript, and its T_1 and T_2 are the aggregate
\* T_1 and T_2 that round 2 committed.
C16_ProofMatchesTranscript ==
    proof.emitted =>
        /\ Committed(proof.A) = transcript[PartyCount + 4]
        /\ Committed(proof.S) = transcript[PartyCount + 5]
        /\ Committed(proof.T_1) = transcript[PartyCount + 8]
        /\ Committed(proof.T_2) = transcript[PartyCount + 9]

\* A Proof emitted for one party after rounds 1 and 2 were given the
\* commitments of Party1 and round 3 a verifying share that embeds the
\* commitments of Party2.
C16_FailingInput ==
    /\ proof.emitted
    /\ PartyCount = 1
    /\ accepted.values = <<Party1.value_commitment>>
    /\ accepted.polys = <<Party1.poly_commitment>>
    /\ accepted.shares[1].value_commitment = Party2.value_commitment
    /\ accepted.shares[1].poly_commitment = Party2.poly_commitment
    /\ result.verified = <<1>>
    /\ proof.A # transcript[PartyCount + 4].v

\* ---------------------------------------------------------------- C17
\* C17: receive_value_commitments and receive_poly_commitments succeed exactly
\* when the batch has m entries and otherwise fail with their length error;
\* receive_shares succeeds exactly when the batch has m entries and every
\* share verifies, and otherwise fails with the length error or with the
\* invalid-share error; a call has no other outcome.
C17_ErrorKinds ==
    /\ result.op = "receive_value_commitments" =>
        /\ result.ok <=> result.len = PartyCount
        /\ result.err = IF result.ok THEN "" ELSE ErrValuesLength
    /\ result.op = "receive_poly_commitments" =>
        /\ result.ok <=> result.len = PartyCount
        /\ result.err = IF result.ok THEN "" ELSE ErrPolyLength
    /\ result.op = "receive_shares" =>
        /\ result.ok <=> (result.len = PartyCount /\ result.all_valid)
        /\ result.err = IF result.ok THEN ""
                        ELSE IF result.len # PartyCount THEN ErrSharesLength
                        ELSE ErrInvalidShare
        /\ result.ok <=> proof.emitted

\* Every kind of outcome of the last round has been seen: here the invalid
\* share, after the two earlier rounds succeeded.
C17_Witness ==
    /\ result.op = "receive_shares"
    /\ result.err = ErrInvalidShare
    /\ result.len = PartyCount
    /\ PartyCount = 2
    /\ Len(succ) = 3

\* ---------------------------------------------------------------- C18
\* C18: in receive_shares the length check comes first: a batch whose length
\* is not m fails with the length error whether or not its shares verify, and
\* none of its shares is verified; the invalid-share error is returned only
\* for a batch of exactly m shares, after share 1, 2, ... were verified in
\* order up to the first one that fails.
C18_ErrorPrecedence ==
    result.op = "receive_shares" =>
        /\ result.len # PartyCount =>
            /\ ~result.ok
            /\ result.err = ErrSharesLength
            /\ result.verified = <<>>
        /\ result.err = ErrInvalidShare =>
            /\ result.len = PartyCount
            /\ ~result.all_valid
            /\ result.verified # <<>>
            /\ result.verified = [j \in 1 .. Len(result.verified) |-> j]
            /\ Len(result.verified) <= PartyCount

\* A batch of the wrong length that holds a share that does not verify.
C18_Witness ==
    /\ result.op = "receive_shares"
    /\ result.len # PartyCount
    /\ result.len > 0
    /\ ~result.all_valid
    /\ result.err = ErrSharesLength
    /\ result.verified = <<>>

\* ---------------------------------------------------------------- C19
Started == dealer.type # "Init"

\* Once the Proof is out nothing is committed to or drawn from the transcript
\* and the dealer stays what it is.
C19_Terminal ==
    proof.emitted =>
        /\ dealer.type = "Proof"
        /\ UNCHANGED <<transcript, dealer, proof, succ>>

\* Every batch the caller can hand to the open round gets an answer, Ok or
\* Err, and at least one batch is accepted.
C19_RoundAnswers ==
    /\ dealer.type = "DealerAwaitingValues" =>
        /\ \A batch \in Batches(ValueCommitments) :
               receive_value_commitments(dealer, batch, transcript).ok \in BOOLEAN
        /\ \E batch \in Batches(ValueCommitments) :
               receive_value_commitments(dealer, batch, transcript).ok
    /\ dealer.type = "DealerAwaitingPoly" =>
        /\ \A batch \in Batches(PolyCommitments) :
               receive_poly_commitments(dealer, batch, transcript).ok \in BOOLEAN
        /\ \E batch \in Batches(PolyCommitments) :
               receive_poly_commitments(dealer, batch, transcript).ok
    /\ dealer.type = "DealerAwaitingShares" =>
        LET shares == ProofShares(dealer.value_challenge, dealer.poly_challenge)
        IN  /\ \A batch \in Batches(shares) :
                   receive_shares(dealer, batch, gen, transcript).ok \in BOOLEAN
            /\ \E batch \in Batches(shares) :
                   receive_shares(dealer, batch, gen, transcript).ok

\* C19: every receive call answers every batch; a run that was started, whose
\* caller eventually supplies an accepted batch in each round, eventually
\* emits a Proof, whatever failing calls come in between; and once the Proof
\* is emitted the dealer is terminal: no further call commits to or draws
\* from the transcript.
C19_Completion ==
    /\ []C19_RoundAnswers
    /\ Started ~> proof.emitted
    /\ [][C19_Terminal]_vars

\* The run has completed: the Proof of two parties is out.
C19_Witness ==
    /\ proof.emitted
    /\ dealer.type = "Proof"
    /\ PartyCount = 2
    /\ Len(transcript) = PartyCount + 15

\* ---------------------------------------------------------------- C20
NoParties == Len(succ) >= 1 /\ PartyCount = 0

\* C20: with m = 0 the start succeeds and each receive call accepts the empty
\* batch, with no share verified; round 1 commits no V and commits the
\* identity as A and as S, round 2 commits the identity as T_1 and as T_2,
\* and round 3 emits a Proof with no value commitments, the identity as A, S,
\* T_1 and T_2, zero as t_x, t_x_blinding and e_blinding, and empty l and r
\* vectors handed to the constructor.
C20_ZeroParties ==
    NoParties =>
        /\ result.len = 0 => (result.ok /\ result.verified = <<>>)
        /\ result.verified = <<>>
        /\ Len(succ) >= 2 =>
            /\ accepted.values = <<>>
            /\ transcript[4] = Committed(identity)
            /\ transcript[5] = Committed(identity)
            /\ IsChallenge(transcript[6])
            /\ IsChallenge(transcript[7])
        /\ Len(succ) >= 3 =>
            /\ accepted.polys = <<>>
            /\ transcript[8] = Committed(identity)
            /\ transcript[9] = Committed(identity)
            /\ IsChallenge(transcript[10])
        /\ Len(succ) >= 4 =>
            /\ proof.emitted
            /\ accepted.shares = <<>>
            /\ proof.value_commitments = <<>>
            /\ proof.A = identity /\ proof.S = identity
            /\ proof.T_1 = identity /\ proof.T_2 = identity
            /\ proof.t_x = zero
            /\ proof.t_x_blinding = zero
            /\ proof.e_blinding = zero
            /\ proof.ipp_proof.l_vec = <<>>
            /\ proof.ipp_proof.r_vec = <<>>
            /\ transcript[11] = Committed(zero)
            /\ transcript[12] = Committed(zero)
            /\ transcript[13] = Committed(zero)

C20_Witness ==
    /\ NoParties
    /\ proof.emitted
    /\ accepted.shape[1] = 1
    /\ Len(transcript) = 15

====
